---- MODULE Spec2Model ----
(***************************************************************************)
(* StockFlow inventory service (src/app.py): the create_product /          *)
(* create_warehouse / get_products handlers, the marshmallow schemas that  *)
(* validate their payloads, and the transactional store they write to.     *)
(*                                                                         *)
(* Representation.                                                         *)
(*  - A SKU is a sequence of one-character strings, so that .upper() and   *)
(*    .strip() are computed character by character.                        *)
(*  - name / location / description are only ever measured by              *)
(*    validate.Length, so they are records [text, len].                    *)
(*  - A price is an integer number of thousandths in the payload and an    *)
(*    integer number of hundredths once quantized by fields.Decimal.       *)
(*  - Row identifiers (uuid4 strings) are positive integers; a payload's    *)
(*    warehouse_id is [str, n]: the JSON string naming identifier n, or    *)
(*    the JSON number n.                                                   *)
(*  - The store keeps committed rows (products, inventory, warehouses) and,*)
(*    per request, the rows its open transaction has written (sess).       *)
(***************************************************************************)
EXTENDS Integers, Sequences, FiniteSets, TLC

\* ---- bounds -----------------------------------------------------------
MaxRequests == 2

\* ---- program constants --------------------------------------------------
NameMaxLen == 255
SkuMaxLen == 100
DescriptionMaxLen == 1000

VARIABLES initialized, inputs, warehouses, products, inventory, req, sess

vars == <<initialized, inputs, warehouses, products, inventory, req, sess>>

Requests == 1..MaxRequests

\* ---- strings ------------------------------------------------------------
Rep(c, n) == [i \in 1..n |-> c]

Lower == <<"a","b","c","d","e","f","g","h","i","j","k","l","m",
           "n","o","p","q","r","s","t","u","v","w","x","y","z">>
Upper == <<"A","B","C","D","E","F","G","H","I","J","K","L","M",
           "N","O","P","Q","R","S","T","U","V","W","X","Y","Z">>
Whitespace == {" ", "\t", "\n"}

\* str.upper(), one character
UpperChar(c) ==
    IF \E i \in 1..Len(Lower) : Lower[i] = c
    THEN Upper[CHOOSE i \in 1..Len(Lower) : Lower[i] = c]
    ELSE c

str_upper(s) == [i \in 1..Len(s) |-> UpperChar(s[i])]

RECURSIVE lstrip(_)
lstrip(s) == IF s # <<>> /\ Head(s) \in Whitespace THEN lstrip(Tail(s)) ELSE s

RECURSIVE rstrip(_)
rstrip(s) ==
    IF s # <<>> /\ s[Len(s)] \in Whitespace
    THEN rstrip(SubSeq(s, 1, Len(s) - 1))
    ELSE s

str_strip(s) == rstrip(lstrip(s))

\* normalize_sku as a plausible slip would write it: uppercase only
normalize_sku_nostrip(s) == str_upper(s)

\* CreateProductSchema.normalize_sku: data['sku'].upper().strip()
normalize_sku(s) == str_strip(str_upper(s))

\* ---- fields.Decimal(places=2) and validate.Range(min=0.01) ---------------
\* Decimal.quantize(Decimal('0.01')) under the default context rounding
\* (ROUND_HALF_EVEN), from thousandths to hundredths
quantize(mills) ==
    LET q == mills \div 10
        rem == mills % 10
    IN  IF rem < 5 THEN q
        ELSE IF rem > 5 THEN q + 1
        ELSE IF q % 2 = 0 THEN q ELSE q + 1

\* The float literal 0.01 of validate.Range(min=0.01).  Decimal and float
\* compare exactly, and the double nearest to 0.01 is
\* 0.01000000000000000020816..., i.e. one hundredth plus a positive excess.
RangeMinFloat == [cents |-> 1, excess |-> TRUE]

\* Range.__call__ with min_inclusive: the value fails when value < self.min
below_range_min(cents) ==
    \/ cents < RangeMinFloat.cents
    \/ cents = RangeMinFloat.cents /\ RangeMinFloat.excess

\* ---- payloads -------------------------------------------------------------
ProductFields == {"name", "sku", "price", "warehouse_id", "initial_quantity"}
WarehouseFields == {"name", "location"}

T(text, len) == [text |-> text, len |-> len]

\* the end-to-end product of the spec: Widget, ABC-1, 9.99, warehouse 1, 5
BaseProduct ==
    [route |-> "create_product", json |-> TRUE, has |-> ProductFields,
     name |-> T("Widget", 6), location |-> T("", 0),
     sku |-> <<"A","B","C","-","1">>,
     price_ok |-> TRUE, price |-> 9990,
     description |-> T("", 0),
     wh_str |-> TRUE, wh |-> 1,
     qty |-> 5]

BaseWarehouse ==
    [route |-> "create_warehouse", json |-> TRUE, has |-> WarehouseFields,
     name |-> T("Main", 4), location |-> T("NY", 2),
     sku |-> <<>>,
     price_ok |-> TRUE, price |-> 0,
     description |-> T("", 0),
     wh_str |-> TRUE, wh |-> 0,
     qty |-> 0]

ListRequest == [BaseProduct EXCEPT !.route = "get_products", !.has = {}]

P(f, v) == [BaseProduct EXCEPT ![f] = v]
Without(fs) == [BaseProduct EXCEPT !.has = ProductFields \ fs]

\* " abc-1 ", "invalid@sku!" and "XYZ" as character sequences
SkuPadded == <<" ","a","b","c","-","1"," ">>
SkuInvalid == <<"i","n","v","a","l","i","d","@","s","k","u","!">>
SkuOther == <<"X","Y","Z">>

\* Payload families.  One behaviour draws all its payloads from one family:
\* the valid base product varied in one field (or in the few fields named).
SkuCaseFamily ==
    {BaseProduct, P("sku", SkuPadded), P("sku", <<>>), P("sku", Rep("A", 101))}

SkuFormatFamily ==
    {P("sku", SkuInvalid), P("sku", <<" ", " ">>), P("sku", Rep("A", 51))}

\* prices in thousandths: -10.00, 0, 0.005, 0.006, 0.01, 0.015, 0.02
PriceLowFamily ==
    {P("price", m) : m \in {-10000, 0, 5, 6, 10, 15, 20}}
    \cup {BaseProduct, [BaseProduct EXCEPT !.price_ok = FALSE]}

\* 19.999, 19.995, 0.125, 0.011
PriceRoundFamily ==
    {P("price", m) : m \in {19999, 19995, 125, 11}}

\* 999999.99, 999999.994, 1000000.00
PriceHighFamily ==
    {P("price", m) : m \in {999999990, 999999994, 1000000000}}

WarehouseFamily ==
    {BaseProduct, P("wh", 2), P("wh", 4), P("wh", 99),
     [BaseProduct EXCEPT !.wh_str = FALSE, !.wh = 9999],
     [BaseProduct EXCEPT !.wh_str = FALSE, !.wh = 1],
     BaseWarehouse,
     [BaseWarehouse EXCEPT !.name = T("", 0)],
     [BaseWarehouse EXCEPT !.has = {"name"}],
     ListRequest}

QuantityFamily ==
    {BaseProduct, P("qty", 0), P("qty", -1), Without({"initial_quantity"}),
     [BaseProduct EXCEPT !.sku = SkuOther, !.qty = 0, !.wh = 2],
     [BaseProduct EXCEPT !.sku = SkuOther, !.has = ProductFields \ {"initial_quantity"}],
     ListRequest}

ShapeFamily ==
    {BaseProduct,
     [BaseProduct EXCEPT !.json = FALSE],
     [BaseProduct EXCEPT !.has = {}],
     Without({"sku", "warehouse_id"}),
     Without({"name"}),
     P("name", T("", 0)), P("name", T("long", 256)),
     [BaseProduct EXCEPT !.has = ProductFields \cup {"description"},
                         !.description = T("text", 4)],
     [BaseProduct EXCEPT !.has = ProductFields \cup {"description"},
                         !.description = T("long", 1001)],
     [BaseProduct EXCEPT !.wh = 99, !.qty = -1],
     [BaseProduct EXCEPT !.wh = 99]}

InputFamilies ==
    {SkuCaseFamily, SkuFormatFamily, PriceLowFamily, PriceRoundFamily,
     PriceHighFamily, WarehouseFamily, QuantityFamily, ShapeFamily}

\* ---- marshmallow: Schema.load -------------------------------------------
\* a field's errors: the set of <<field, code>> pairs load() collects
Required(p, f) == IF f \in p.has THEN {} ELSE {<<f, "required">>}

\* validate.Length(min, max) on a [text, len] value
LengthError(f, len, min, max) ==
    IF len < min \/ len > max THEN {<<f, "length">>} ELSE {}

NameErrors(p) ==
    IF "name" \in p.has
    THEN LengthError("name", p.name.len, 1, NameMaxLen)
    ELSE Required(p, "name")

\* fields.Str(validate=Length(min=1, max=100)): measured on the raw string
SkuErrors(p) ==
    IF "sku" \in p.has
    THEN LengthError("sku", Len(p.sku), 1, SkuMaxLen)
    ELSE Required(p, "sku")

\* fields.Decimal(places=2, validate=Range(min=0.01)): parse, quantize,
\* then validate the quantized value
PriceErrors(p) ==
    IF "price" \notin p.has THEN Required(p, "price")
    ELSE IF ~p.price_ok THEN {<<"price", "invalid">>}
    ELSE IF below_range_min(quantize(p.price)) THEN {<<"price", "range">>}
    ELSE {}

DescriptionErrors(p) ==
    IF "description" \in p.has
    THEN LengthError("description", p.description.len, 0, DescriptionMaxLen)
    ELSE {}

\* fields.Str: a JSON number is "Not a valid string."
WarehouseIdErrors(p) ==
    IF "warehouse_id" \notin p.has THEN Required(p, "warehouse_id")
    ELSE IF ~p.wh_str THEN {<<"warehouse_id", "invalid">>}
    ELSE {}

\* fields.Int(required=True) without its Range validator
InitialQuantityErrorsNoRange(p) == Required(p, "initial_quantity")

\* fields.Int(required=True, validate=Range(min=0))
InitialQuantityErrors(p) ==
    IF "initial_quantity" \notin p.has THEN Required(p, "initial_quantity")
    ELSE IF p.qty < 0 THEN {<<"initial_quantity", "range">>}
    ELSE {}

\* a load() that stops at the first field in error
CreateProductErrorsFirstOnly(p) ==
    IF NameErrors(p) # {} THEN NameErrors(p)
    ELSE IF SkuErrors(p) # {} THEN SkuErrors(p)
    ELSE IF PriceErrors(p) # {} THEN PriceErrors(p)
    ELSE IF DescriptionErrors(p) # {} THEN DescriptionErrors(p)
    ELSE IF WarehouseIdErrors(p) # {} THEN WarehouseIdErrors(p)
    ELSE InitialQuantityErrors(p)

\* CreateProductSchema().load(data): err.messages
CreateProductErrors(p) ==
    NameErrors(p) \cup SkuErrors(p) \cup PriceErrors(p) \cup DescriptionErrors(p)
    \cup WarehouseIdErrors(p) \cup InitialQuantityErrors(p)

NoDescription == T("", -1)

NoData == [name |-> T("", 0), location |-> T("", 0), sku |-> <<>>, price |-> 0,
           description |-> NoDescription, warehouse_id |-> 0, initial_quantity |-> 0]

\* CreateProductSchema().load(data): the validated, post_load-ed data
CreateProductData(p) ==
    [name |-> p.name, location |-> T("", 0),
     sku |-> normalize_sku(p.sku),
     price |-> quantize(p.price),
     description |-> IF "description" \in p.has THEN p.description ELSE NoDescription,
     warehouse_id |-> p.wh,
     initial_quantity |-> p.qty]

CreateWarehouseErrors(p) ==
    (IF "name" \in p.has
     THEN LengthError("name", p.name.len, 1, NameMaxLen)
     ELSE Required(p, "name"))
    \cup
    (IF "location" \in p.has
     THEN LengthError("location", p.location.len, 1, NameMaxLen)
     ELSE Required(p, "location"))

CreateWarehouseData(p) ==
    [NoData EXCEPT !.name = p.name, !.location = p.location]

\* ---- state ---------------------------------------------------------------
IdleReq ==
    [pc |-> "idle", payload |-> BaseProduct, data |-> NoData,
     status |-> 0, error |-> "", details |-> {}, product_id |-> 0,
     list |-> {}, total |-> 0, fault |-> FALSE]

\* a request whose response went out and whose context was popped
DoneReq == [IdleReq EXCEPT !.pc = "done"]

NoSession == [txn |-> FALSE, products |-> {}, inventory |-> {}, warehouses |-> {}]

Init ==
    /\ initialized = FALSE
    /\ inputs \in InputFamilies
    /\ warehouses = {}
    /\ products = {}
    /\ inventory = {}
    /\ req = [r \in Requests |-> IdleReq]
    /\ sess = [r \in Requests |-> NoSession]

\* ---- the store ------------------------------------------------------------
\* uuid4(): an identifier no committed or in-flight row of the table uses
FreshId(used) == CHOOSE n \in 1..(Cardinality(used) + 1) : n \notin used

ProductIds == {p.id : p \in products} \cup UNION {{p.id : p \in sess[r].products} : r \in Requests}
InventoryIds == {i.id : i \in inventory} \cup UNION {{i.id : i \in sess[r].inventory} : r \in Requests}
WarehouseIds == {w.id : w \in warehouses} \cup UNION {{w.id : w \in sess[r].warehouses} : r \in Requests}

\* a unique index that is never consulted
UniqueViolationOff(sku) == FALSE

\* Product.sku unique=True: the INSERT collides with a committed row
UniqueViolation(sku) == \E p \in products : p.sku = sku

\* the INSERT waits while another open transaction holds the same key
InsertBlocked(r, sku) ==
    \E o \in Requests \ {r} : \E p \in sess[o].products : p.sku = sku

\* session.rollback(): the transaction's writes are discarded
Rollback(r) == NoSession

\* ---- before_first_request ---------------------------------------------------
DefaultWarehouses ==
    {[id |-> 1, name |-> T("Main Warehouse", 14), location |-> T("New York, NY", 12)],
     [id |-> 2, name |-> T("West Coast Warehouse", 20), location |-> T("Los Angeles, CA", 15)],
     [id |-> 3, name |-> T("East Coast Warehouse", 20), location |-> T("Boston, MA", 10)]}

create_tables ==
    /\ ~initialized
    /\ initialized' = TRUE
    /\ warehouses' = IF Cardinality(warehouses) = 0 THEN DefaultWarehouses ELSE warehouses
    /\ UNCHANGED <<inputs, products, inventory, req, sess>>

\* ---- responses --------------------------------------------------------------
Respond(r, status, error, details) ==
    [req[r] EXCEPT !.pc = "responded", !.status = status, !.error = error,
                   !.details = details]

\* ---- POST /api/products -----------------------------------------------------
\* lines 179-202: content type, body, schema
create_product_begin(r, p) ==
    /\ initialized
    /\ req[r].pc = "idle"
    /\ \A o \in Requests : o < r => req[o].pc # "idle"
    /\ p \in inputs
    /\ p.route = "create_product"
    /\ LET q == [req[r] EXCEPT !.payload = p]
       IN  req' = [req EXCEPT ![r] =
               IF ~p.json
               THEN [q EXCEPT !.pc = "responded", !.status = 400,
                              !.error = "Content-Type must be application/json"]
               ELSE IF p.has = {}
               THEN [q EXCEPT !.pc = "responded", !.status = 400,
                              !.error = "Request body is required"]
               ELSE IF CreateProductErrors(p) # {}
               THEN [q EXCEPT !.pc = "responded", !.status = 400,
                              !.error = "Validation failed",
                              !.details = CreateProductErrors(p)]
               ELSE [q EXCEPT !.pc = "check_warehouse",
                              !.data = CreateProductData(p)]]
    /\ UNCHANGED <<initialized, inputs, warehouses, products, inventory, sess>>

\* lines 204-210: Warehouse.query.get(warehouse_id)
create_product_warehouse(r) ==
    /\ req[r].pc = "check_warehouse"
    /\ sess' = [sess EXCEPT ![r].txn = TRUE]
    /\ req' = [req EXCEPT ![r] =
           IF \E w \in warehouses : w.id = req[r].data.warehouse_id
           THEN [req[r] EXCEPT !.pc = "check_sku"]
           ELSE Respond(r, 404, "Warehouse not found", {})]
    /\ UNCHANGED <<initialized, inputs, warehouses, products, inventory>>

\* lines 213-220: Product.query.filter_by(sku=...).first()
create_product_sku_check(r) ==
    /\ req[r].pc = "check_sku"
    /\ req' = [req EXCEPT ![r] =
           IF \E p \in products \cup sess[r].products : p.sku = req[r].data.sku
           THEN Respond(r, 409, "SKU already exists", {})
           ELSE [req[r] EXCEPT !.pc = "flush"]]
    /\ UNCHANGED <<initialized, inputs, warehouses, products, inventory, sess>>

NewProduct(r) ==
    [id |-> FreshId(ProductIds),
     name |-> req[r].data.name,
     sku |-> req[r].data.sku,
     price |-> req[r].data.price,
     description |-> req[r].data.description]

\* session.flush() writing straight through to the committed table
create_product_flush_autocommit(r) ==
    /\ req[r].pc = "flush"
    /\ ~InsertBlocked(r, req[r].data.sku)
    /\ IF UniqueViolation(req[r].data.sku)
       THEN /\ sess' = [sess EXCEPT ![r] = Rollback(r)]
            /\ req' = [req EXCEPT ![r] = Respond(r, 409, "Database constraint violation", {})]
            /\ UNCHANGED products
       ELSE /\ products' = products \cup {NewProduct(r)}
            /\ sess' = [sess EXCEPT ![r].txn = TRUE]
            /\ req' = [req EXCEPT ![r].pc = "commit", ![r].product_id = NewProduct(r).id]
    /\ UNCHANGED <<initialized, inputs, warehouses, inventory>>

\* session.flush() whose IntegrityError falls through to the generic
\* SQLAlchemyError handler
create_product_flush_generic(r) ==
    /\ req[r].pc = "flush"
    /\ ~InsertBlocked(r, req[r].data.sku)
    /\ IF UniqueViolation(req[r].data.sku)
       THEN /\ sess' = [sess EXCEPT ![r] = Rollback(r)]
            /\ req' = [req EXCEPT ![r] = Respond(r, 500, "Database operation failed", {})]
       ELSE /\ sess' = [sess EXCEPT ![r].txn = TRUE,
                                    ![r].products = @ \cup {NewProduct(r)}]
            /\ req' = [req EXCEPT ![r].pc = "commit", ![r].product_id = NewProduct(r).id]
    /\ UNCHANGED <<initialized, inputs, warehouses, products, inventory>>

\* lines 222-230 and 254-260: Product(...), session.add, session.flush();
\* an IntegrityError from the INSERT rolls back and answers 409
create_product_flush(r) ==
    /\ req[r].pc = "flush"
    /\ ~InsertBlocked(r, req[r].data.sku)
    /\ IF UniqueViolation(req[r].data.sku)
       THEN /\ sess' = [sess EXCEPT ![r] = Rollback(r)]
            /\ req' = [req EXCEPT ![r] = Respond(r, 409, "Database constraint violation", {})]
       ELSE /\ sess' = [sess EXCEPT ![r].txn = TRUE,
                                    ![r].products = @ \cup {NewProduct(r)}]
            /\ req' = [req EXCEPT ![r].pc = "commit", ![r].product_id = NewProduct(r).id]
    /\ UNCHANGED <<initialized, inputs, warehouses, products, inventory>>

\* an Inventory built without quantity=..., left to the column default
NewInventoryDefaultQuantity(r) ==
    [id |-> FreshId(InventoryIds),
     product_id |-> req[r].product_id,
     warehouse_id |-> req[r].data.warehouse_id,
     quantity |-> 0,
     reserved_quantity |-> 0]

\* lines 233-237 (reserved_quantity: the column default of line 83)
NewInventory(r) ==
    [id |-> FreshId(InventoryIds),
     product_id |-> req[r].product_id,
     warehouse_id |-> req[r].data.warehouse_id,
     quantity |-> req[r].data.initial_quantity,
     reserved_quantity |-> 0]

\* lines 232-252: Inventory(...), session.add, session.commit(), 201.
\* The response reads product.id and product.to_dict() after the commit
\* expired the instance, so the session begins a new (read) transaction.
create_product_commit(r) ==
    /\ req[r].pc = "commit"
    /\ products' = products \cup sess[r].products
    /\ inventory' = inventory \cup sess[r].inventory \cup {NewInventory(r)}
    /\ sess' = [sess EXCEPT ![r] = [NoSession EXCEPT !.txn = TRUE]]
    /\ req' = [req EXCEPT ![r] = Respond(r, 201, "", {})]
    /\ UNCHANGED <<initialized, inputs, warehouses>>

\* lines 254-267 / 269-274: which handler catches a SQLAlchemyError raised
\* at this point of create_product.  Warehouse.query.get runs before the
\* inner try, so only the outer `except Exception` sees its failure.
InInnerTry(r) == req[r].pc \in {"check_sku", "flush", "commit", "wh_commit"}

AtStoreCall(r) == req[r].pc \in {"check_warehouse", "check_sku", "flush", "commit", "wh_commit"}

\* a SQLAlchemyError (lost connection, lock timeout, ...) from the store call
storage_error(r) ==
    /\ AtStoreCall(r)
    /\ sess' = [sess EXCEPT ![r] = IF InInnerTry(r) THEN Rollback(r)
                                   ELSE [sess[r] EXCEPT !.txn = TRUE]]
    /\ req' = [req EXCEPT ![r] =
           [Respond(r, 500, IF InInnerTry(r) THEN "Database operation failed"
                            ELSE "Internal server error", {})
            EXCEPT !.fault = TRUE]]
    /\ UNCHANGED <<initialized, inputs, warehouses, products, inventory>>

\* lines 269-274 / 315-317: any other exception; no rollback before the 500
unexpected_error(r) ==
    /\ AtStoreCall(r)
    /\ req' = [req EXCEPT ![r] =
           [Respond(r, 500, "Internal server error", {}) EXCEPT !.fault = TRUE]]
    /\ UNCHANGED <<initialized, inputs, warehouses, products, inventory, sess>>

\* a teardown that commits what the session still holds
\* (SQLALCHEMY_COMMIT_ON_TEARDOWN) before removing it
shutdown_session_commit(r) ==
    /\ req[r].pc = "responded"
    /\ req' = [req EXCEPT ![r] = DoneReq]
    /\ products' = products \cup sess[r].products
    /\ inventory' = inventory \cup sess[r].inventory
    /\ warehouses' = warehouses \cup sess[r].warehouses
    /\ sess' = [sess EXCEPT ![r] = NoSession]
    /\ UNCHANGED <<initialized, inputs>>

\* Flask-SQLAlchemy's teardown_appcontext hook: session.remove() closes the
\* request's session, rolling back whatever transaction is still open
shutdown_session(r) ==
    /\ req[r].pc = "responded"
    /\ req' = [req EXCEPT ![r] = DoneReq]
    /\ sess' = [sess EXCEPT ![r] = NoSession]
    /\ UNCHANGED <<initialized, inputs, warehouses, products, inventory>>

\* ---- POST /api/warehouses ---------------------------------------------------
\* lines 279-299
create_warehouse_begin(r, p) ==
    /\ initialized
    /\ req[r].pc = "idle"
    /\ \A o \in Requests : o < r => req[o].pc # "idle"
    /\ p \in inputs
    /\ p.route = "create_warehouse"
    /\ LET q == [req[r] EXCEPT !.payload = p]
       IN  req' = [req EXCEPT ![r] =
               IF ~p.json
               THEN [q EXCEPT !.pc = "responded", !.status = 400,
                              !.error = "Content-Type must be application/json"]
               ELSE IF p.has = {}
               THEN [q EXCEPT !.pc = "responded", !.status = 400,
                              !.error = "Request body is required"]
               ELSE IF CreateWarehouseErrors(p) # {}
               THEN [q EXCEPT !.pc = "responded", !.status = 400,
                              !.error = "Validation failed",
                              !.details = CreateWarehouseErrors(p)]
               ELSE [q EXCEPT !.pc = "wh_commit",
                              !.data = CreateWarehouseData(p)]]
    /\ UNCHANGED <<initialized, inputs, warehouses, products, inventory, sess>>

NewWarehouse(r) ==
    [id |-> FreshId(WarehouseIds),
     name |-> req[r].data.name,
     location |-> req[r].data.location]

\* lines 301-309: session.add, session.commit(), 201 (warehouse.to_dict()
\* reloads the expired instance)
create_warehouse_commit(r) ==
    /\ req[r].pc = "wh_commit"
    /\ warehouses' = warehouses \cup {NewWarehouse(r)}
    /\ sess' = [sess EXCEPT ![r] = [NoSession EXCEPT !.txn = TRUE]]
    /\ req' = [req EXCEPT ![r] = Respond(r, 201, "", {})]
    /\ UNCHANGED <<initialized, inputs, products, inventory>>

\* ---- GET /api/products ------------------------------------------------------
\* Inventory.available_quantity
available_quantity(i) == i.quantity - i.reserved_quantity

\* lines 330-337: the inventory entries embedded in one product
InventoriesOf(p) ==
    {[warehouse_id |-> i.warehouse_id,
      warehouse_name |-> (CHOOSE w \in warehouses : w.id = i.warehouse_id).name,
      quantity |-> i.quantity,
      reserved_quantity |-> i.reserved_quantity,
      available_quantity |-> available_quantity(i)] :
        i \in {j \in inventory : j.product_id = p.id}}

\* lines 323-344: the 'products' array (Product.query.all() has no ORDER BY,
\* so the array is a set here) over the committed rows
ListProducts ==
    {[id |-> p.id, name |-> p.name, sku |-> p.sku, price |-> p.price,
      description |-> p.description, inventories |-> InventoriesOf(p)] :
        p \in products}

get_products(r, p) ==
    /\ initialized
    /\ req[r].pc = "idle"
    /\ \A o \in Requests : o < r => req[o].pc # "idle"
    /\ p \in inputs
    /\ p.route = "get_products"
    /\ sess' = [sess EXCEPT ![r].txn = TRUE]
    /\ req' = [req EXCEPT ![r] =
           [req[r] EXCEPT !.payload = p, !.pc = "responded", !.status = 200,
                          !.list = ListProducts,
                          !.total = Cardinality(ListProducts)]]
    /\ UNCHANGED <<initialized, inputs, warehouses, products, inventory>>

\* ---- specification -------------------------------------------------------------
Next ==
    \/ create_tables
    \/ \E r \in Requests, p \in inputs : create_product_begin(r, p)
    \/ \E r \in Requests : create_product_warehouse(r)
    \/ \E r \in Requests : create_product_sku_check(r)
    \/ \E r \in Requests : create_product_flush(r)
    \/ \E r \in Requests : create_product_commit(r)
    \/ \E r \in Requests : storage_error(r)
    \/ \E r \in Requests : unexpected_error(r)
    \/ \E r \in Requests : shutdown_session(r)
    \/ \E r \in Requests, p \in inputs : create_warehouse_begin(r, p)
    \/ \E r \in Requests : create_warehouse_commit(r)
    \/ \E r \in Requests, p \in inputs : get_products(r, p)

Spec == Init /\ [][Next]_vars

\* ---- properties ----------------------------------------------------------------
Responded(r) == req[r].pc = "responded"

\* a create_product request that has been answered without an injected failure
Answered(r) ==
    /\ Responded(r)
    /\ req[r].payload.route = "create_product"
    /\ ~req[r].fault

\* the payload is the valid base product except, possibly, in the fields fs
SameExcept(p, fs) == \A f \in (DOMAIN BaseProduct) \ fs : p[f] = BaseProduct[f]

SkuPlain == <<"A","B","C","-","1">>

StoredProduct(r) == CHOOSE p \in products : p.id = req[r].product_id

\* C1: atomic create.  Every committed Product row has a committed Inventory
\* row, in every state and in every list response, also while other requests
\* are between their flush and their commit and after one has failed there.
C1_AtomicCreate ==
    /\ \A p \in products : \E i \in inventory : i.product_id = p.id
    /\ \A g \in Requests :
          (Responded(g) /\ req[g].payload.route = "get_products")
              => \A e \in req[g].list : e.inventories # {}

\* a create failed after its flush while another create has committed
C1_Witness ==
    \E r, o \in Requests :
        /\ r # o
        /\ Responded(r) /\ req[r].fault /\ req[r].product_id # 0
        /\ Responded(o) /\ req[o].status = 201

\* C2: SKU uniqueness.  No two committed Product rows have the same
\* normalized (trimmed, uppercased) SKU.
C2_SkuUnique ==
    \A p1, p2 \in products :
        normalize_sku(p1.sku) = normalize_sku(p2.sku) => p1 = p2

\* two answered creates of one normalized SKU, one row stored
C2_Witness ==
    \E r, o \in Requests :
        /\ r # o /\ Answered(r) /\ Answered(o)
        /\ req[r].status = 201 /\ req[o].status = 409
        /\ req[r].data.sku = req[o].data.sku
        /\ Cardinality({p \in products : p.sku = req[r].data.sku}) = 1

\* two answered, otherwise valid creates of the same normalized SKU
SameSkuPair(r, o) ==
    /\ r # o /\ Answered(r) /\ Answered(o)
    /\ req[r].status \notin {400, 404} /\ req[o].status \notin {400, 404}
    /\ req[r].data.sku = req[o].data.sku

\* C3: race on SKU.  Of two otherwise valid creates of one normalized SKU,
\* never both get 201 and neither gets a 500; when no other request has been
\* received, exactly one gets 201 and the other 409.
C3_SkuRace ==
    \A r, o \in Requests :
        SameSkuPair(r, o) =>
            /\ ~(req[r].status = 201 /\ req[o].status = 201)
            /\ req[r].status \in {201, 409} /\ req[o].status \in {201, 409}
            /\ (\A x \in Requests \ {r, o} : req[x].pc = "idle")
                  => (req[r].status = 201 \/ req[o].status = 201)

\* both passed the pre-check; the loser was stopped by the unique index
C3_Witness ==
    \E r, o \in Requests :
        /\ SameSkuPair(r, o)
        /\ req[r].status = 201
        /\ req[o].status = 409 /\ req[o].error = "Database constraint violation"

\* C4: create-then-list.  The step that answers a create with 201 adds exactly
\* one product to what list_products shows, and that product embeds exactly
\* one inventory entry: the payload's warehouse, the payload's quantity,
\* reserved 0, available = quantity.
C4_CreateThenList ==
    [][\A r \in Requests :
          (req[r].pc = "commit" /\ req'[r].status = 201) =>
              /\ ListProducts \subseteq ListProducts'
              /\ Cardinality(ListProducts') = Cardinality(ListProducts) + 1
              /\ \A e \in ListProducts' \ ListProducts :
                    /\ e.id = req[r].product_id
                    /\ Cardinality(e.inventories) = 1
                    /\ \A i \in e.inventories :
                          /\ i.warehouse_id = req[r].payload.wh
                          /\ i.quantity = req[r].payload.qty
                          /\ i.reserved_quantity = 0
                          /\ i.available_quantity = req[r].payload.qty]_vars

\* a list response that shows a created product
C4_Witness ==
    \E r, g \in Requests :
        /\ Answered(r) /\ req[r].status = 201
        /\ Responded(g) /\ req[g].payload.route = "get_products"
        /\ \E e \in req[g].list :
              /\ e.id = req[r].product_id
              /\ \E i \in e.inventories : i.quantity = req[r].payload.qty

\* C5: optional initial quantity.  A create that omits initial_quantity, all
\* else valid, is answered 201 with an inventory row of quantity 0 (or 409
\* when its SKU is taken).
C5_OptionalQuantity ==
    \A r \in Requests :
        (/\ Answered(r)
         /\ SameExcept(req[r].payload, {"has", "sku"})
         /\ req[r].payload.has = ProductFields \ {"initial_quantity"}
         /\ req[r].payload.sku \in {SkuPlain, SkuOther})
        => \/ req[r].status = 409
           \/ /\ req[r].status = 201
              /\ \E i \in inventory :
                    i.product_id = req[r].product_id /\ i.quantity = 0

\* C6: SKU normalization before the uniqueness check.  " abc-1 " and "ABC-1"
\* are one SKU: whichever create is answered 201 stored "ABC-1", and any
\* other answered create of either spelling got 409.
C6_SkuNormalized ==
    \A r \in Requests :
        (/\ Answered(r)
         /\ SameExcept(req[r].payload, {"sku"})
         /\ req[r].payload.sku \in {SkuPadded, SkuPlain}
         /\ req[r].status = 201)
        => /\ StoredProduct(r).sku = SkuPlain
           /\ \A o \in Requests \ {r} :
                 (/\ Answered(o)
                  /\ SameExcept(req[o].payload, {"sku"})
                  /\ req[o].payload.sku \in {SkuPadded, SkuPlain})
                 => req[o].status = 409

\* the two spellings met: one stored as "ABC-1", the other refused
C6_Witness ==
    \E r, o \in Requests :
        /\ Answered(r) /\ Answered(o)
        /\ req[r].payload.sku = SkuPadded /\ req[o].payload.sku = SkuPlain
        /\ {req[r].status, req[o].status} = {201, 409}
        /\ \E p \in products : p.sku = SkuPlain

\* the payload's warehouse_id names a committed warehouse
Resolves(p) == p.wh_str /\ \E w \in warehouses : w.id = p.wh

\* C7: warehouse not found.  A create whose warehouse_id resolves to no
\* warehouse, all else valid, is answered 404 and has written nothing.
C7_WarehouseNotFound ==
    \A r \in Requests :
        (/\ Answered(r)
         /\ SameExcept(req[r].payload, {"wh", "wh_str"})
         /\ ~Resolves(req[r].payload))
        => req[r].status = 404 /\ req[r].product_id = 0

Digits == {"0","1","2","3","4","5","6","7","8","9"}

SkuAlphabet == {Upper[i] : i \in 1..Len(Upper)} \cup Digits \cup {"_", "-"}

\* C8: SKU format.  Every stored SKU is non-empty, at most 50 characters and
\* drawn from [A-Z0-9_-].
C8_SkuFormat ==
    \A p \in products :
        /\ Len(p.sku) >= 1
        /\ Len(p.sku) <= 50
        /\ \A i \in 1..Len(p.sku) : p.sku[i] \in SkuAlphabet

\* C9: price bounds.  A create, all else valid, is refused with 400 exactly
\* when its price is outside [0.01, 999999.99], and every stored price lies
\* in that interval.
C9_PriceBounds ==
    /\ \A r \in Requests :
          (/\ Answered(r)
           /\ SameExcept(req[r].payload, {"price"}))
          => (req[r].status = 400
                <=> ~(10 <= req[r].payload.price /\ req[r].payload.price <= 999999990))
    /\ \A p \in products : 1 <= p.price /\ p.price <= 99999999

\* C10: price precision.  A create whose price has a third decimal and lies
\* in [0.01, 999999.99], all else valid, is accepted (201, or 409 when the SKU
\* is taken) and the stored price is the nearest hundredth, never the
\* truncation of a price whose third decimal is above 5.
C10_PriceRounded ==
    \A r \in Requests :
        (/\ Answered(r)
         /\ SameExcept(req[r].payload, {"price"})
         /\ req[r].payload.price % 10 # 0
         /\ 10 <= req[r].payload.price /\ req[r].payload.price <= 999999990)
        => /\ req[r].status \in {201, 409}
           /\ req[r].status = 201 =>
                LET m == req[r].payload.price
                    c == StoredProduct(r).price
                IN  /\ 10 * c - m <= 5 /\ m - 10 * c <= 5
                    /\ m % 10 > 5 => c = (m \div 10) + 1

\* C11: no response mid-transaction.  When create_product or create_warehouse
\* has produced its response, the transaction the request opened on its
\* session has been committed or rolled back.  Stated for the transactions
\* that have written: no row the request flushed is still uncommitted in an
\* open transaction.
C11_NoResponseMidTransaction ==
    \A r \in Requests :
        (/\ Responded(r)
         /\ req[r].payload.route \in {"create_product", "create_warehouse"})
        => ~(/\ sess[r].txn
             /\ sess[r].products \cup sess[r].inventory \cup sess[r].warehouses # {})

\* the payload names warehouse 99, which no request ever creates
NoSuchWarehouse(p) == p.wh_str /\ p.wh = 99

SpecRequiredFields == {"name", "sku", "price", "warehouse_id"}

FailsNow(r) ==
    /\ req[r].pc \notin {"responded", "done"}
    /\ req'[r].pc = "responded"
    /\ req'[r].payload.route = "create_product"
    /\ req'[r].status # 201

\* request r commits its create_product in this step
CommitsNow(r) == req[r].pc = "commit" /\ req'[r].status = 201

====
